---- MODULE Spec2Model ----
(***************************************************************************)
(* The submission queue of RandomMemesId_py: the MongoDB collection        *)
(* "queue", the QueueManager API over it (src/core/queue.py), the intake   *)
(* and status poller of the Discord bot (src/bot/bot.py) and the upload    *)
(* worker (src/worker/worker.py).                                          *)
(*                                                                         *)
(* The collection is a sequence of documents in natural (insertion)        *)
(* order.  Every document carries the ObjectId `_id` the driver generates  *)
(* at insert_one (field oid, increasing with every insert of the process)  *)
(* and the message id `id` the callers filter on.                          *)
(***************************************************************************)
EXTENDS Integers, Sequences, FiniteSets, TLC

\* ------------------------------------------------------------------ bounds
\* Message ids the chat gateway delivers to the QueueManager program.
NumQueueIds == 2
\* Longest id list handed to QueueManager.set_priority.
MaxList == 2
\* Messages posted to the submission channel of the bot (src/bot/bot.py).
NumMsgs == 2
\* Messages posted to the submission channel while only the intake is watched.
NumSubmissions == 5

\* insert_one calls made by the callers of the bare QueueManager API.
MaxInserts == 3

\* Messages of the runs with a log channel configured.
NumLogMsgs == 1
\* Writes and publisher calls counted per message before the count saturates.
MaxCalls == 2

QueueIds == 1..NumQueueIds
LogMsgs == 1..NumLogMsgs
Msgs == 1..NumMsgs
Submissions == 1..NumSubmissions
\* The messages of the runs that watch the publisher calls: one photo, a video
\* with a photo, one video.
PublishMsgs == {1, 2, 7}
AllMsgs == Msgs \cup Submissions \cup PublishMsgs

\* bot.py, _is_valid_message: "if len(message.attachments) > 10".
MaxAttachments == 10

VARIABLES
    store,      \* the "queue" collection: documents in natural order
    nextOid,    \* the next ObjectId the driver generates
    seen,       \* message ids the gateway has delivered (a snowflake is never reused)
    sp,         \* the set_priority call in progress, if any
    msg,        \* per message of the submission channel: "unsent", "live" or "deleted"
    inflight,   \* per message: the db_entry on_message has built and not yet inserted
    media,      \* message ids whose directory ../.queue/media/<id> exists
    delpc,      \* per message: where its deletion handler stands ("db_logged": at
                \* the database step after a logged failure to remove the files)
    w,          \* the worker's upload_media invocation (one at a time)
    rc,         \* the bot's _poll_status_changes loop
    mark,       \* per message: the bot's reactions on it, named by status
    ipc,        \* per message: the reaction on_message still has to add ("log":
                \* it is in _log_queue)
    calls,      \* per message id: how many times the worker wrote "uploading" for
                \* it and how many times it called the publisher for it
    log_channel \* _bot_config has a log_channel_id

qvars == <<seen, sp>>
pvars == <<msg, inflight, media, delpc, w, rc, mark, ipc, calls, log_channel>>
vars == <<store, nextOid, seen, sp, msg, inflight, media, delpc, w, rc, mark, ipc,
          calls, log_channel>>

\* ---------------------------------------------------------------- documents
\* find_one's result when no document matches (Python's None).
NoDoc ==
    [oid |-> 0, id |-> 0, status |-> "none", priority |-> 0, stop |-> FALSE,
     error |-> <<>>, reacted |-> FALSE, attachments |-> <<>>, log_message_id |-> 0]

\* The dict DiscordClient.on_message hands to QueueManager.add.
media_entry(id) ==
    [id |-> id, status |-> "pending", priority |-> 0, stop |-> FALSE,
     error |-> <<>>, reacted |-> FALSE, attachments |-> <<"PHOTO">>]

\* ------------------------------------------------------ collection primitives
\* insert_one: the driver adds a fresh _id; nothing but _id is unique.
insert_one(s, oid, doc) ==
    Append(s, [oid |-> oid] @@ doc)

\* Position of the first document with {"id": id}, 0 when there is none.
RECURSIVE FirstFrom(_, _, _)
FirstFrom(s, id, i) ==
    IF i > Len(s) THEN 0
    ELSE IF s[i].id = id THEN i
    ELSE FirstFrom(s, id, i + 1)

FirstWithId(s, id) == FirstFrom(s, id, 1)

\* (a delete that takes the oldest document when the filter matches any)
DeleteOldest(s, id) ==
    IF FirstWithId(s, id) = 0 THEN s ELSE Tail(s)

\* delete_one({"id": id}): removes the first match, no error when none.
delete_one(s, id) ==
    LET k == FirstWithId(s, id)
    IN IF k = 0 THEN s
       ELSE [i \in 1..(Len(s) - 1) |-> IF i < k THEN s[i] ELSE s[i + 1]]

\* sort=[("priority", 1), ("_id", 1)]: a sorts before b.
\* (the tie-break taken on the message id instead of the ObjectId)
SortsBeforeById(a, b) ==
    \/ a.priority < b.priority
    \/ a.priority = b.priority /\ a.id < b.id

SortsBefore(a, b) ==
    \/ a.priority < b.priority
    \/ a.priority = b.priority /\ a.oid < b.oid

\* (the filter without its "stop" clause)
MatchesAnyStop(d) == d.status = "pending"

\* (a filter on the status alone, which also takes failed records)
MatchesFailedToo(d) == d.status \in {"pending", "failed"}

\* The filter {"stop": False, "status": "pending"}.
MatchesPending(d) == d.stop = FALSE /\ d.status = "pending"

\* find_one(filter, sort): scan the collection, keep the match that sorts first.
RECURSIVE FindOneFrom(_, _, _)
FindOneFrom(s, i, best) ==
    IF i > Len(s) THEN best
    ELSE IF MatchesPending(s[i]) /\ (best = NoDoc \/ SortsBefore(s[i], best))
         THEN FindOneFrom(s, i + 1, s[i])
         ELSE FindOneFrom(s, i + 1, best)

find_one_pending(s) == FindOneFrom(s, 1, NoDoc)

\* (an update that takes the first document of the collection)
UpdateFirstDocument(s, id, upd) ==
    IF s = <<>> THEN s ELSE [s EXCEPT ![1] = [upd EXCEPT !.oid = s[1].oid]]

\* update_one({"id": id}, {"$set": ...}): the first match is replaced by upd
\* (the document after the $set); no upsert, so nothing happens without a match.
update_one_set(s, id, upd) ==
    LET k == FirstWithId(s, id)
    IN IF k = 0 THEN s ELSE [s EXCEPT ![k] = upd]

DocWithId(s, id) ==
    LET k == FirstWithId(s, id) IN IF k = 0 THEN NoDoc ELSE s[k]

\* -------------------------------------------------- QueueManager (core/queue.py)
add(s, oid, data) == insert_one(s, oid, data)

get_first(s) == find_one_pending(s)

remove_by_id(s, id) == delete_one(s, id)

stop_queue(s, id) ==
    update_one_set(s, id, [DocWithId(s, id) EXCEPT !.stop = TRUE])

update_status(s, id, status) ==
    update_one_set(s, id, [DocWithId(s, id) EXCEPT !.status = status])

\* set_priority's loop body for position idx (1-based here, idx - 1 in the code).
SetOnePriorityFlat(s, ids, idx) ==
    update_one_set(s, ids[idx],
                   [DocWithId(s, ids[idx]) EXCEPT !.priority = 0 - Len(ids)])

set_one_priority(s, ids, idx) ==
    update_one_set(s, ids[idx],
                   [DocWithId(s, ids[idx]) EXCEPT !.priority = (idx - 1) - Len(ids)])

InList(ids, id) == \E i \in 1..Len(ids) : ids[i] = id

\* update_many({"id": {"$nin": ids}}, {"$set": {"priority": 0}}).
ClearNothing(s, ids) == s

clear_other_priorities(s, ids) ==
    [i \in 1..Len(s) |->
        IF InList(ids, s[i].id) THEN s[i] ELSE [s[i] EXCEPT !.priority = 0]]

\* ------------------------------------------------------------------- lists
RECURSIVE SeqsUpTo(_, _)
SeqsUpTo(S, n) ==
    IF n = 0 THEN {<<>>}
    ELSE LET shorter == SeqsUpTo(S, n - 1)
         IN shorter \cup {Append(q, x) : q \in {r \in shorter : Len(r) = n - 1}, x \in S}

IdLists == SeqsUpTo(QueueIds, MaxList)

SpIdle == [pc |-> "idle", ids |-> <<>>, idx |-> 0, base |-> 0]

\* ------------------------------------------------------ intake (bot/bot.py)
\* bot/utils.py, MediaConfig: content type -> media type, "NONE" when unmapped.
MediaConfig(content_type) ==
    CASE content_type \in {"image/jpeg", "image/png"} -> "PHOTO"
      [] content_type \in {"video/mp4", "video/mpeg", "video/x-matroska",
                           "video/quicktime"} -> "VIDEO"
      [] OTHER -> "NONE"

\* The content types of the attachments of message m: the submissions the gateway
\* delivers here are one photo, a video with a photo, a photo with a text file,
\* one attachment too many, a video with as many photos as are still accepted,
\* a message without attachment, and one video.
Submission(m) ==
    CASE m % 8 = 1 -> <<"image/png">>
      [] m % 8 = 2 -> <<"video/mp4", "image/jpeg">>
      [] m % 8 = 3 -> <<"image/png", "text/plain">>
      [] m % 8 = 4 -> [i \in 1..(MaxAttachments + 1) |-> "image/png"]
      [] m % 8 = 5 -> [i \in 1..MaxAttachments |->
                          IF i = 1 THEN "video/mp4" ELSE "image/jpeg"]
      [] m % 8 = 7 -> <<"video/mp4">>
      [] OTHER -> <<>>

\* (a validity test without the cap)
IsValidMessageNoCap(attachments) == Len(attachments) # 0

\* _is_valid_message: some attachment, and no more than ten.
is_valid_message(attachments) ==
    /\ Len(attachments) # 0
    /\ ~(Len(attachments) > MaxAttachments)

\* (a validation that drops the invalid attachments and keeps the others)
ValidateDroppingInvalid(attachments) ==
    LET types == [i \in 1..Len(attachments) |-> MediaConfig(attachments[i])]
    IN SelectSeq(types, LAMBDA ty : ty # "NONE")

\* _validate_attachments: the media type of every attachment, or the empty list
\* as soon as one of them is invalid.
validate_attachments(attachments) ==
    IF \E i \in 1..Len(attachments) : MediaConfig(attachments[i]) = "NONE"
    THEN <<>>
    ELSE [i \in 1..Len(attachments) |-> MediaConfig(attachments[i])]

\* Each awaited attachment.save succeeds or raises.
SaveOutcomes(n) == [1..n -> BOOLEAN]

\* The number of attachment.save calls on_message makes for message m: none when
\* the message is rejected.
SavesTried(m) ==
    IF is_valid_message(Submission(m)) /\ validate_attachments(Submission(m)) # <<>>
    THEN Len(Submission(m)) ELSE 0

RECURSIVE SavedFrom(_, _, _)
SavedFrom(media_type, saved, i) ==
    IF i > Len(media_type) THEN <<>>
    ELSE (IF saved[i] THEN <<media_type[i]>> ELSE <<>>)
         \o SavedFrom(media_type, saved, i + 1)

RECURSIVE ErrorsFrom(_, _)
ErrorsFrom(saved, i) ==
    IF i > Len(saved) THEN <<>>
    ELSE (IF saved[i] THEN <<>> ELSE <<"save failed">>) \o ErrorsFrom(saved, i + 1)

\* (a db_entry that is queued whatever happened to its files)
ProcessAttachmentsAlwaysPending(message_id, media_type, saved) ==
    [id |-> message_id, status |-> "pending", priority |-> 0, stop |-> FALSE,
     error |-> ErrorsFrom(saved, 1), reacted |-> FALSE,
     attachments |-> SavedFrom(media_type, saved, 1), log_message_id |-> 0]

\* _process_attachments: the db_entry built once every attachment was tried.
process_attachments(message_id, media_type, saved) ==
    LET errors == ErrorsFrom(saved, 1)
    IN [id |-> message_id,
        status |-> IF errors = <<>> THEN "pending" ELSE "error",
        priority |-> 0,
        stop |-> errors # <<>>,
        error |-> errors,
        reacted |-> FALSE,
        attachments |-> SavedFrom(media_type, saved, 1),
        log_message_id |-> 0]

\* No db_entry is waiting to be inserted.
NoEntry == NoDoc

\* ------------------------------------------------------ worker (worker/worker.py)
get_next_queue_item(s) == find_one_pending(s)

\* (a status write that leaves reacted alone)
UpdateStatusKeepingReacted(s, item_id, status) ==
    update_one_set(s, item_id, [DocWithId(s, item_id) EXCEPT !.status = status])

\* _update_queue_status: $set status, reacted = False (and updated_at).
update_queue_status(s, item_id, status) ==
    update_one_set(s, item_id,
                   [DocWithId(s, item_id) EXCEPT !.status = status, !.reacted = FALSE])

\* (a failure handler that appends to the error list)
HandleFailureAppending(s, item_id, error) ==
    update_one_set(s, item_id,
                   [DocWithId(s, item_id) EXCEPT
                       !.status = "failed", !.stop = TRUE,
                       !.error = Append(DocWithId(s, item_id).error, error)])

\* (a failure handler that leaves stop alone)
HandleFailureNoStop(s, item_id, error) ==
    update_one_set(s, item_id,
                   [DocWithId(s, item_id) EXCEPT
                       !.status = "failed", !.error = <<error>>])

\* (a failure handler that puts the item back in the queue)
HandleFailureRequeue(s, item_id, error) ==
    update_one_set(s, item_id,
                   [DocWithId(s, item_id) EXCEPT
                       !.status = "pending", !.stop = FALSE, !.error = <<error>>])

\* (a failure handler that does not store the error)
HandleFailureNoError(s, item_id, error) ==
    update_one_set(s, item_id,
                   [DocWithId(s, item_id) EXCEPT !.status = "failed", !.stop = TRUE])

\* _handle_processing_failure: $set status = failed, stop = True,
\* error = [str(error)] (and updated_at); reacted is not written.
handle_processing_failure(s, item_id, error) ==
    update_one_set(s, item_id,
                   [DocWithId(s, item_id) EXCEPT
                       !.status = "failed", !.stop = TRUE, !.error = <<error>>])

\* str(e) of what upload_media can catch.
ErrorMessages ==
    {"convert failed", "upload failed", "cleanup failed", "status failed", "no media"}

WorkerIdle ==
    [pc |-> "idle", item |-> NoDoc, k |-> 0, error |-> "", converted |-> <<>>,
     media_type |-> "", published |-> FALSE]

\* _process_media: the converted file written next to attachment number k of
\* the item ("<k>_<message id>_<attachment id><ext>_converted.jpg" or ".mp4").
process_media(attachment, k) == [source |-> k, type |-> attachment]

\* (a loop that puts each converted medium in front of the others)
ConvertedPrepending(converted, attachment, k) ==
    <<process_media(attachment, k)>> \o converted

\* converted_medias.append(converted_media).
converted_append(converted, attachment, k) ==
    Append(converted, process_media(attachment, k))

\* (a loop that stops after its first conversion)
ConvertLoopFirstOnly(wr, ok) ==
    IF ~ok THEN [wr EXCEPT !.pc = "failure", !.error = "convert failed"]
    ELSE [wr EXCEPT !.pc = "uploading",
                    !.converted = converted_append(@, wr.item.attachments[wr.k], wr.k)]

\* "for media in item['attachments']" after the conversion of attachment wr.k:
\* a raise is re-raised out of the loop, the last attachment ends it, else the
\* next attachment is converted.
convert_loop(wr, ok) ==
    IF ~ok THEN [wr EXCEPT !.pc = "failure", !.error = "convert failed"]
    ELSE IF wr.k = Len(wr.item.attachments)
         THEN [wr EXCEPT !.pc = "uploading",
                         !.converted = converted_append(@, wr.item.attachments[wr.k], wr.k)]
    ELSE [wr EXCEPT !.k = wr.k + 1,
                    !.converted = converted_append(@, wr.item.attachments[wr.k], wr.k)]

\* "_media_type": 'ALBUM' for more than one attachment, else the type of the
\* only attachment.
media_type_of(attachments) ==
    IF Len(attachments) > 1 THEN "ALBUM" ELSE attachments[1]

\* (a dispatch on the media type alone)
PublisherCallByType(converted, media_type) ==
    IF media_type = "PHOTO" THEN [kind |-> "photo", sent |-> <<converted[1]>>]
    ELSE IF media_type = "VIDEO" THEN [kind |-> "video", sent |-> <<converted[1]>>]
    ELSE [kind |-> "photo", sent |-> <<converted[1]>>]

\* The publisher call upload_media makes: album_upload(converted_medias) for
\* more than one converted medium, else photo_upload or video_upload of
\* converted_medias[0] by _media_type, and no call for any other type.
publisher_call(converted, media_type) ==
    IF Len(converted) > 1 THEN [kind |-> "album", sent |-> converted]
    ELSE IF media_type = "PHOTO" THEN [kind |-> "photo", sent |-> <<converted[1]>>]
    ELSE IF media_type = "VIDEO" THEN [kind |-> "video", sent |-> <<converted[1]>>]
    ELSE [kind |-> "none", sent |-> <<>>]

\* No publisher call was made for a message id.
NoCalls == [uploading |-> 0, publish |-> 0, kind |-> "none", sent |-> <<>>]

\* The last upload_media ended by raising out of its except clause; the
\* scheduler logs the job's exception and starts the job again at the next
\* interval.
WorkerRaised == [WorkerIdle EXCEPT !.pc = "raised"]

\* One more write or call, counted up to MaxCalls.
OneMore(n) == IF n < MaxCalls THEN n + 1 ELSE MaxCalls

\* ------------------------------------------------------ poller (bot/bot.py)
\* (a query for the final statuses only)
UnreactedFinal(d) == d.status \in {"success", "failed"} /\ d.reacted = FALSE

\* The query of _poll_status_changes.
Unreacted(d) == d.status \in {"success", "failed", "uploading"} /\ d.reacted = FALSE

\* The documents the cursor of _collections.find(query) yields, in natural order.
RECURSIVE FindUnreactedFrom(_, _)
FindUnreactedFrom(s, i) ==
    IF i > Len(s) THEN <<>>
    ELSE (IF Unreacted(s[i]) THEN <<s[i]>> ELSE <<>>) \o FindUnreactedFrom(s, i + 1)

\* _update_database_reacted_flag.
update_database_reacted_flag(s, message_id) ==
    update_one_set(s, message_id, [DocWithId(s, message_id) EXCEPT !.reacted = TRUE])

PollerIdle == [pc |-> "sleep", batch |-> <<>>, log |-> "none"]

\* _react_poll_changes, reaction_map with default_reaction: status -> emoji.
reaction_map(status) ==
    CASE status = "success" -> "check"
      [] status = "failed" -> "cross"
      [] status = "uploading" -> "hourglass"
      [] status = "pending" -> "clock"
      [] OTHER -> "question"

\* The emojis _fetch_and_process_main_message removes: reaction_map.values().
MappedReactions == {"check", "cross", "hourglass", "clock"}

\* (a marking that removes nothing)
AddReactionOnly(reactions, reaction) == reactions \cup {reaction}

\* _fetch_and_process_main_message: the bot's reactions on the message after
\* every mapped emoji was removed and the new one added.
fetch_and_process_main_message(reactions, reaction) ==
    (reactions \ MappedReactions) \cup {reaction}

\* (a _react_poll_changes without the log update)
AfterMainMessageNoLog(item, has_log_channel) == "flag"

\* _react_poll_changes after the main message was marked: the log update when
\* the item has a log_message_id and a log channel is configured, else the
\* reacted flag.
after_main_message(item, has_log_channel) ==
    IF item.log_message_id # 0 /\ has_log_channel THEN "log" ELSE "flag"

\* _react_poll_changes after _process_log_update returned: the reacted flag,
\* whether the edit was made or an exception was logged.
after_log_update(ok) == "flag"

\* (a _react_poll_changes that goes on after a failed fetch)
ReactIgnoringFetch(loop, fetched, has_log_channel) ==
    [loop EXCEPT !.pc = after_main_message(Head(loop.batch), has_log_channel)]

\* _react_poll_changes for the first item of the cursor: past the main message
\* when it was fetched and marked; otherwise the exception is logged and the
\* loop is at the next item of the cursor, or asleep after the last.
react_poll_changes(loop, fetched, has_log_channel) ==
    IF fetched
    THEN [loop EXCEPT !.pc = after_main_message(Head(loop.batch), has_log_channel)]
    ELSE IF Len(loop.batch) = 1 THEN PollerIdle
    ELSE [loop EXCEPT !.batch = Tail(loop.batch)]

\* _save_to_db_and_react: the emoji on_message adds after the insert was tried.
intake_reaction(db_entry, error_db) ==
    IF db_entry.stop /\ error_db THEN "cross" ELSE "clock"

\* (a handler that deletes whatever the status is)
ShouldDeleteAnyStatus(media_status) == media_status # NoDoc

\* (a handler that never deletes)
ShouldDeleteNever(media_status) == FALSE

\* _handle_message_deletion: "if media_status and media_status['status'] != 'success'".
should_delete(media_status) ==
    media_status # NoDoc /\ media_status.status # "success"

\* ------------------------------------------------------------------ Init
Init ==
    /\ store = <<>>
    /\ nextOid = 1
    /\ seen = {}
    /\ sp = SpIdle
    /\ msg = [m \in AllMsgs |-> "unsent"]
    /\ inflight = [m \in AllMsgs |-> NoEntry]
    /\ media = {}
    /\ delpc = [m \in AllMsgs |-> "idle"]
    /\ w = WorkerIdle
    /\ rc = PollerIdle
    /\ mark = [m \in AllMsgs |-> {}]
    /\ ipc = [m \in AllMsgs |-> "idle"]
    /\ calls = [m \in AllMsgs |-> NoCalls]
    /\ log_channel = FALSE

\* ----------------------------------------------- actions of the QueueManager API
\* DiscordClient.on_message -> QueueManager.add(media_entry) for a new message.
QueueAdd(id) ==
    /\ id \notin seen
    /\ seen' = seen \cup {id}
    /\ store' = add(store, nextOid, media_entry(id))
    /\ nextOid' = nextOid + 1
    /\ UNCHANGED <<sp, pvars>>

\* InstagramClient.upload_queue, lines 65-68: get_first, then claim the item.
Dequeue ==
    /\ get_first(store) # NoDoc
    /\ store' = update_status(store, get_first(store).id, "processing")
    /\ UNCHANGED <<nextOid, seen, sp, pvars>>

QueueStop(id) ==
    /\ FirstWithId(store, id) # 0
    /\ store' = stop_queue(store, id)
    /\ UNCHANGED <<nextOid, seen, sp, pvars>>

\* set_priority(ids) is called: total = len(ids), nothing written yet.
SetPriorityCall(ids) ==
    /\ sp.pc \in {"idle", "done"}
    /\ sp' = [pc |-> "loop", ids |-> ids, idx |-> 1, base |-> nextOid]
    /\ UNCHANGED <<store, nextOid, seen, pvars>>

\* One iteration of "for idx, item_id in enumerate(ids)": one awaited update_one.
SetPriorityStep ==
    /\ sp.pc = "loop"
    /\ sp.idx <= Len(sp.ids)
    /\ store' = set_one_priority(store, sp.ids, sp.idx)
    /\ sp' = [sp EXCEPT !.idx = sp.idx + 1]
    /\ UNCHANGED <<nextOid, seen, pvars>>

\* The loop is over: the awaited update_many, after which the call returns.
SetPriorityClear ==
    /\ sp.pc = "loop"
    /\ sp.idx > Len(sp.ids)
    /\ store' = clear_other_priorities(store, sp.ids)
    /\ sp' = [sp EXCEPT !.pc = "done"]
    /\ UNCHANGED <<nextOid, seen, pvars>>

NextQueue ==
    \/ \E id \in QueueIds : QueueAdd(id)
    \/ Dequeue
    \/ \E id \in QueueIds : QueueStop(id)
    \/ \E ids \in IdLists : SetPriorityCall(ids)
    \/ SetPriorityStep
    \/ SetPriorityClear

SpecQueue == Init /\ [][NextQueue]_vars

\* ------------------------------------- the QueueManager API under any caller
\* QueueManager.add(data) with whatever id the caller passes.
ApiAdd(id) ==
    /\ nextOid <= MaxInserts
    /\ store' = add(store, nextOid, media_entry(id))
    /\ nextOid' = nextOid + 1
    /\ seen' = seen \cup {id}
    /\ UNCHANGED <<sp, pvars>>

\* QueueManager.remove_by_id(id_) with whatever id the caller passes.
ApiRemove(id) ==
    /\ store' = remove_by_id(store, id)
    /\ UNCHANGED <<nextOid, seen, sp, pvars>>

NextApi ==
    \/ \E id \in QueueIds : ApiAdd(id)
    \/ \E id \in QueueIds : ApiRemove(id)
    \/ \E id \in QueueIds : QueueStop(id)
    \/ Dequeue

SpecApi == Init /\ [][NextApi]_vars

\* ----------------------------------------------------- actions of the bot
\* on_message for a new message m, up to the db_entry: the message is deleted when
\* it is invalid; otherwise its directory is created and every attachment saved.
OnMessage(m, saved) ==
    /\ msg[m] = "unsent"
    /\ LET attachments == Submission(m)
           media_type == validate_attachments(attachments)
       IN IF ~is_valid_message(attachments) \/ media_type = <<>>
          THEN /\ msg' = [msg EXCEPT ![m] = "deleted"]
               /\ UNCHANGED <<inflight, media>>
          ELSE /\ saved \in SaveOutcomes(Len(attachments))
               /\ msg' = [msg EXCEPT ![m] = "live"]
               /\ media' = media \cup {m}
               /\ inflight' = [inflight EXCEPT
                      ![m] = process_attachments(m, media_type, saved)]
    /\ UNCHANGED <<store, nextOid, qvars, delpc, w, rc, mark, ipc, calls, log_channel>>

\* _save_to_db_and_react up to the reaction: insert_one succeeds, or raises and
\* is logged; the emoji to add is chosen.
SaveToDb(m, db_ok) ==
    /\ inflight[m] # NoEntry
    /\ inflight' = [inflight EXCEPT ![m] = NoEntry]
    /\ IF db_ok
       THEN /\ store' = insert_one(store, nextOid, inflight[m])
            /\ nextOid' = nextOid + 1
       ELSE UNCHANGED <<store, nextOid>>
    /\ ipc' = [ipc EXCEPT ![m] = intake_reaction(inflight[m], ~db_ok)]
    /\ UNCHANGED <<qvars, msg, media, delpc, w, rc, mark, calls, log_channel>>

\* _save_to_db_and_react, message.add_reaction: the emoji is added and on_message
\* goes on to _log_queue (which returns at once without a log channel), or the
\* message is gone and the call raises (discord.NotFound) out of on_message.
AddReaction(m) ==
    /\ ipc[m] \notin {"idle", "log"}
    /\ ipc' = [ipc EXCEPT ![m] =
           IF msg[m] = "live" /\ log_channel THEN "log" ELSE "idle"]
    /\ mark' = IF msg[m] = "live" THEN [mark EXCEPT ![m] = @ \cup {ipc[m]}] ELSE mark
    /\ UNCHANGED <<store, nextOid, qvars, msg, inflight, media, delpc, w, rc, calls, log_channel>>

\* _log_queue with a log channel: the embed is sent and _update_queue_log_chat
\* stores its id on the document (find_one_and_update, no upsert), or an
\* exception is logged.
LogQueue(m, ok) ==
    /\ ipc[m] = "log"
    /\ ipc' = [ipc EXCEPT ![m] = "idle"]
    /\ store' = IF ok
                THEN update_one_set(store, m,
                         [DocWithId(store, m) EXCEPT !.log_message_id = m])
                ELSE store
    /\ UNCHANGED <<nextOid, qvars, msg, inflight, media, delpc, w, rc, mark, calls, log_channel>>

\* The message is deleted in the channel; on_raw_message_delete reads its document
\* (_get_media_status) and goes on unless there is none or it is a success.
OnRawMessageDelete(m) ==
    /\ msg[m] = "live"
    /\ msg' = [msg EXCEPT ![m] = "deleted"]
    /\ mark' = [mark EXCEPT ![m] = {}]
    /\ delpc' = [delpc EXCEPT ![m] =
           IF should_delete(DocWithId(store, m)) THEN "files" ELSE "idle"]
    /\ UNCHANGED <<store, nextOid, qvars, inflight, media, w, rc, ipc, calls, log_channel>>

\* _delete_media_files: rmtree removes the directory if it exists, or raises and
\* the exception is logged.
DeleteMediaFiles(m, ok) ==
    /\ delpc[m] = "files"
    /\ ~ok => m \in media
    /\ media' = IF ok THEN media \ {m} ELSE media
    /\ delpc' = [delpc EXCEPT ![m] = IF ok THEN "db" ELSE "db_logged"]
    /\ UNCHANGED <<store, nextOid, qvars, msg, inflight, w, rc, mark, ipc, calls, log_channel>>

\* _delete_message_from_db.
DeleteMessageFromDb(m) ==
    /\ delpc[m] \in {"db", "db_logged"}
    /\ store' = delete_one(store, m)
    /\ delpc' = [delpc EXCEPT ![m] = "idle"]
    /\ UNCHANGED <<nextOid, qvars, msg, inflight, media, w, rc, mark, ipc, calls, log_channel>>

\* _poll_status_changes wakes up and runs its query.
Poll ==
    /\ rc.pc = "sleep"
    /\ FindUnreactedFrom(store, 1) # <<>>
    /\ rc' = [pc |-> "react", batch |-> FindUnreactedFrom(store, 1), log |-> "none"]
    /\ UNCHANGED <<store, nextOid, qvars, msg, inflight, media, delpc, w, mark, ipc, calls, log_channel>>

\* _react_poll_changes for the next item of the cursor, up to the reactions: the
\* source message is fetched (never when it was deleted) and marked, or an
\* exception is logged and the item is left for the next poll.
React(fetched) ==
    /\ rc.pc = "react"
    /\ fetched => msg[Head(rc.batch).id] = "live"
    /\ rc' = react_poll_changes(rc, fetched, log_channel)
    /\ mark' = IF fetched
               THEN [mark EXCEPT ![Head(rc.batch).id] =
                        fetch_and_process_main_message(
                            @, reaction_map(Head(rc.batch).status))]
               ELSE mark
    /\ UNCHANGED <<store, nextOid, qvars, msg, inflight, media, delpc, w, ipc, calls, log_channel>>

\* _process_log_update: the log message is fetched and its embed edited, or an
\* exception is logged inside _process_log_update; either way it returns.
ProcessLogUpdate(ok) ==
    /\ rc.pc = "log"
    /\ rc' = [rc EXCEPT !.pc = after_log_update(ok),
                        !.log = IF ok THEN "edited" ELSE "failed"]
    /\ UNCHANGED <<store, nextOid, qvars, msg, inflight, media, delpc, w, mark, ipc, calls, log_channel>>

\* _update_database_reacted_flag for that item, then the next item or the sleep.
UpdateReactedFlag ==
    /\ rc.pc = "flag"
    /\ store' = update_database_reacted_flag(store, Head(rc.batch).id)
    /\ rc' = IF Len(rc.batch) = 1 THEN PollerIdle
             ELSE [pc |-> "react", batch |-> Tail(rc.batch), log |-> "none"]
    /\ UNCHANGED <<nextOid, qvars, msg, inflight, media, delpc, w, mark, ipc, calls, log_channel>>

\* --------------------------------------------------- actions of the worker
\* upload_media is started by the scheduler (one instance at a time) and fetches
\* the next item: with an empty queue it returns; when the query raises, the
\* except clause is entered with no item bound, and its first expression,
\* item['id'], raises (UnboundLocalError) out of upload_media.
WorkerFetch(ok) ==
    /\ w.pc \in {"idle", "raised"}
    /\ w' = IF ~ok THEN WorkerRaised
            ELSE IF get_next_queue_item(store) = NoDoc THEN WorkerIdle
            ELSE IF get_next_queue_item(store).attachments = <<>>
            THEN [WorkerIdle EXCEPT !.pc = "failure", !.error = "no media",
                                    !.item = get_next_queue_item(store)]
            ELSE [WorkerIdle EXCEPT
                     !.pc = "convert", !.k = 1,
                     !.item = get_next_queue_item(store),
                     !.media_type = media_type_of(get_next_queue_item(store).attachments)]
    /\ UNCHANGED <<store, nextOid, qvars, msg, inflight, media, delpc, rc, mark, ipc, calls, log_channel>>

\* One iteration of "for media in item['attachments']", for attachment number
\* w.k: _process_media converts the file (which must still be there), or raises
\* and the loop re-raises into the except clause.
WorkerConvert(ok) ==
    /\ w.pc = "convert"
    /\ ok => w.item.id \in media
    /\ w' = convert_loop(w, ok)
    /\ UNCHANGED <<store, nextOid, qvars, msg, inflight, media, delpc, rc, mark, ipc, calls, log_channel>>

\* _update_queue_status(item_id, "uploading"), or the write raises.
WorkerSetUploading(ok) ==
    /\ w.pc = "uploading"
    /\ IF ok
       THEN /\ store' = update_queue_status(store, w.item.id, "uploading")
            /\ calls' = [calls EXCEPT ![w.item.id].uploading = OneMore(@)]
            /\ w' = [w EXCEPT !.pc = "upload"]
       ELSE /\ w' = [w EXCEPT !.pc = "failure", !.error = "status failed"]
            /\ UNCHANGED <<store, calls>>
    /\ UNCHANGED <<nextOid, qvars, msg, inflight, media, delpc, rc, mark, ipc, log_channel>>

\* album_upload / photo_upload / video_upload is called with the converted
\* files: it raises at once when they are gone, else the upload is under way.
\* For a type that is neither PHOTO nor VIDEO nothing is called.
WorkerCall ==
    /\ w.pc = "upload"
    /\ LET call == publisher_call(w.converted, w.media_type)
       IN IF call.kind = "none"
          THEN /\ w' = [w EXCEPT !.pc = "success"]
               /\ UNCHANGED calls
          ELSE /\ calls' = [calls EXCEPT ![w.item.id] =
                               [@ EXCEPT !.publish = OneMore(@), !.kind = call.kind,
                                         !.sent = call.sent]]
               /\ w' = IF w.item.id \in media THEN [w EXCEPT !.pc = "publishing"]
                       ELSE [w EXCEPT !.pc = "failure", !.error = "upload failed"]
    /\ UNCHANGED <<store, nextOid, qvars, msg, inflight, media, delpc, rc, mark, ipc, log_channel>>

\* The publisher call returns (the item is published), or raises.
WorkerUpload(ok) ==
    /\ w.pc = "publishing"
    /\ w' = IF ok THEN [w EXCEPT !.pc = "success", !.published = TRUE]
            ELSE [w EXCEPT !.pc = "failure", !.error = "upload failed"]
    /\ UNCHANGED <<store, nextOid, qvars, msg, inflight, media, delpc, rc, mark, ipc, calls, log_channel>>

\* _update_queue_status(item_id, "success"), or the write raises.
WorkerSetSuccess(ok) ==
    /\ w.pc = "success"
    /\ IF ok
       THEN /\ store' = update_queue_status(store, w.item.id, "success")
            /\ w' = [w EXCEPT !.pc = "cleanup"]
       ELSE /\ w' = [w EXCEPT !.pc = "failure", !.error = "status failed"]
            /\ UNCHANGED store
    /\ UNCHANGED <<nextOid, qvars, msg, inflight, media, delpc, rc, mark, ipc, calls, log_channel>>

\* _cleanup_media, still inside the try block: rmtree removes the directory if it
\* exists, or raises (OSError) into the except clause.
WorkerCleanup(ok) ==
    /\ w.pc = "cleanup"
    /\ ~ok => w.item.id \in media
    /\ IF ok
       THEN /\ media' = media \ {w.item.id}
            /\ w' = WorkerIdle
       ELSE /\ w' = [w EXCEPT !.pc = "failure", !.error = "cleanup failed"]
            /\ UNCHANGED media
    /\ UNCHANGED <<store, nextOid, qvars, msg, inflight, delpc, rc, mark, ipc, calls, log_channel>>

\* The except clause with an item bound: _handle_processing_failure stores the
\* failure and upload_media returns False.
WorkerFailure ==
    /\ w.pc = "failure"
    /\ store' = handle_processing_failure(store, w.item.id, w.error)
    /\ w' = WorkerIdle
    /\ UNCHANGED <<nextOid, qvars, msg, inflight, media, delpc, rc, mark, ipc, calls, log_channel>>

Next ==
    \/ \E m \in Msgs : \E saved \in SaveOutcomes(SavesTried(m)) : OnMessage(m, saved)
    \/ \E m \in Msgs : \E db_ok \in BOOLEAN : SaveToDb(m, db_ok)
    \/ \E m \in Msgs : AddReaction(m)
    \/ \E m \in Msgs : OnRawMessageDelete(m)
    \/ \E m \in Msgs : \E ok \in BOOLEAN : DeleteMediaFiles(m, ok)
    \/ \E m \in Msgs : DeleteMessageFromDb(m)
    \/ Poll
    \/ \E fetched \in BOOLEAN : React(fetched)
    \/ UpdateReactedFlag
    \/ \E ok \in BOOLEAN : WorkerFetch(ok)
    \/ \E ok \in BOOLEAN : WorkerConvert(ok)
    \/ \E ok \in BOOLEAN : WorkerSetUploading(ok)
    \/ WorkerCall
    \/ \E ok \in BOOLEAN : WorkerUpload(ok)
    \/ \E ok \in BOOLEAN : WorkerSetSuccess(ok)
    \/ \E ok \in BOOLEAN : WorkerCleanup(ok)
    \/ WorkerFailure

Spec == Init /\ [][Next]_vars

\* ------------------------------------------------- the processes keep running
\* A step of the _poll_status_changes loop, which sleeps five seconds and goes on.
PollerStep ==
    \/ Poll
    \/ \E fetched \in BOOLEAN : React(fetched)
    \/ \E ok \in BOOLEAN : ProcessLogUpdate(ok)
    \/ UpdateReactedFlag

\* A step of upload_media, which the scheduler starts at every interval.
WorkerStep ==
    \/ \E ok \in BOOLEAN : WorkerFetch(ok)
    \/ \E ok \in BOOLEAN : WorkerConvert(ok)
    \/ \E ok \in BOOLEAN : WorkerSetUploading(ok)
    \/ WorkerCall
    \/ \E ok \in BOOLEAN : WorkerUpload(ok)
    \/ \E ok \in BOOLEAN : WorkerSetSuccess(ok)
    \/ \E ok \in BOOLEAN : WorkerCleanup(ok)
    \/ WorkerFailure

\* A step of an event handler of the bot that has begun: on_message after its
\* db_entry is built, the deletion handler after its read.
HandlerStep ==
    \/ \E m \in Msgs : \E db_ok \in BOOLEAN : SaveToDb(m, db_ok)
    \/ \E m \in Msgs : AddReaction(m)
    \/ \E m \in Msgs : \E ok \in BOOLEAN : LogQueue(m, ok)
    \/ \E m \in Msgs : \E ok \in BOOLEAN : DeleteMediaFiles(m, ok)
    \/ \E m \in Msgs : DeleteMessageFromDb(m)

\* The poller and the worker never stop, a handler that has begun runs to its
\* end, a message that stays in the channel is not refused to the poller for
\* ever, and the worker's query does not raise for ever.
SpecLive ==
    /\ Spec
    /\ WF_vars(HandlerStep)
    /\ WF_vars(PollerStep)
    /\ SF_vars(React(TRUE))
    /\ WF_vars(WorkerStep)
    /\ SF_vars(WorkerFetch(TRUE))

\* ----------------------------- the bot and the worker with a log channel
InitLog ==
    /\ store = <<>>
    /\ nextOid = 1
    /\ seen = {}
    /\ sp = SpIdle
    /\ msg = [m \in AllMsgs |-> "unsent"]
    /\ inflight = [m \in AllMsgs |-> NoEntry]
    /\ media = {}
    /\ delpc = [m \in AllMsgs |-> "idle"]
    /\ w = WorkerIdle
    /\ rc = PollerIdle
    /\ mark = [m \in AllMsgs |-> {}]
    /\ ipc = [m \in AllMsgs |-> "idle"]
    /\ calls = [m \in AllMsgs |-> NoCalls]
    /\ log_channel = TRUE

NextLog ==
    \/ \E m \in LogMsgs : \E saved \in SaveOutcomes(SavesTried(m)) : OnMessage(m, saved)
    \/ \E m \in LogMsgs : \E db_ok \in BOOLEAN : SaveToDb(m, db_ok)
    \/ \E m \in LogMsgs : AddReaction(m)
    \/ \E m \in LogMsgs : \E ok \in BOOLEAN : LogQueue(m, ok)
    \/ \E m \in LogMsgs : OnRawMessageDelete(m)
    \/ \E m \in LogMsgs : \E ok \in BOOLEAN : DeleteMediaFiles(m, ok)
    \/ \E m \in LogMsgs : DeleteMessageFromDb(m)
    \/ Poll
    \/ \E fetched \in BOOLEAN : React(fetched)
    \/ \E ok \in BOOLEAN : ProcessLogUpdate(ok)
    \/ UpdateReactedFlag
    \/ \E ok \in BOOLEAN : WorkerFetch(ok)
    \/ \E ok \in BOOLEAN : WorkerConvert(ok)
    \/ \E ok \in BOOLEAN : WorkerSetUploading(ok)
    \/ WorkerCall
    \/ \E ok \in BOOLEAN : WorkerUpload(ok)
    \/ \E ok \in BOOLEAN : WorkerSetSuccess(ok)
    \/ \E ok \in BOOLEAN : WorkerCleanup(ok)
    \/ WorkerFailure

SpecLog == InitLog /\ [][NextLog]_vars

\* ------------- submissions and the worker's ticks, with no deletion
NextDrain ==
    \/ \E m \in Msgs : \E saved \in SaveOutcomes(SavesTried(m)) : OnMessage(m, saved)
    \/ \E m \in Msgs : \E db_ok \in BOOLEAN : SaveToDb(m, db_ok)
    \/ \E m \in Msgs : AddReaction(m)
    \/ \E ok \in BOOLEAN : WorkerFetch(ok)
    \/ \E ok \in BOOLEAN : WorkerConvert(ok)
    \/ \E ok \in BOOLEAN : WorkerSetUploading(ok)
    \/ WorkerCall
    \/ \E ok \in BOOLEAN : WorkerUpload(ok)
    \/ \E ok \in BOOLEAN : WorkerSetSuccess(ok)
    \/ \E ok \in BOOLEAN : WorkerCleanup(ok)
    \/ WorkerFailure

\* The scheduler starts upload_media at every interval, an upload_media that
\* has begun runs to its end, and the worker's query does not raise for ever.
SpecDrain ==
    /\ Init
    /\ [][NextDrain]_vars
    /\ WF_vars(WorkerStep)
    /\ SF_vars(WorkerFetch(TRUE))

\* ------------- the worker process stopped in the middle of upload_media
\* The process ends (a signal, or asyncio.run cancelling the job: CancelledError
\* is not an Exception, so the except clause is passed by) at an await or call of
\* upload_media: nothing more is written, and the process started next begins
\* with no item in hand.
WorkerInterrupt ==
    /\ w.pc \notin {"idle", "raised"}
    /\ w' = WorkerIdle
    /\ UNCHANGED <<store, nextOid, qvars, msg, inflight, media, delpc, rc, mark, ipc, calls, log_channel>>

NextInterrupt ==
    \/ NextDrain
    \/ WorkerInterrupt

SpecInterrupt == Init /\ [][NextInterrupt]_vars

\* ------------- submissions of every publishable kind and the worker's ticks
NextPublish ==
    \/ \E m \in PublishMsgs : \E saved \in SaveOutcomes(SavesTried(m)) : OnMessage(m, saved)
    \/ \E m \in PublishMsgs : \E db_ok \in BOOLEAN : SaveToDb(m, db_ok)
    \/ \E m \in PublishMsgs : AddReaction(m)
    \/ \E ok \in BOOLEAN : WorkerFetch(ok)
    \/ \E ok \in BOOLEAN : WorkerConvert(ok)
    \/ \E ok \in BOOLEAN : WorkerSetUploading(ok)
    \/ WorkerCall
    \/ \E ok \in BOOLEAN : WorkerUpload(ok)
    \/ \E ok \in BOOLEAN : WorkerSetSuccess(ok)
    \/ \E ok \in BOOLEAN : WorkerCleanup(ok)
    \/ WorkerFailure

SpecPublish == Init /\ [][NextPublish]_vars

\* ----------------------- on_message alone, over more kinds of submission
NextIntake ==
    \/ \E m \in Submissions : \E saved \in SaveOutcomes(SavesTried(m)) : OnMessage(m, saved)
    \/ \E m \in Submissions : \E db_ok \in BOOLEAN : SaveToDb(m, db_ok)
    \/ \E m \in Submissions : AddReaction(m)

SpecIntake == Init /\ [][NextIntake]_vars

\* ------------------------------------------------------- dequeue order
\* The documents successive dequeues return when nothing else touches the store.
RECURSIVE DrainOrder(_)
DrainOrder(s) ==
    LET item == get_first(s)
    IN IF item = NoDoc THEN <<>>
       ELSE <<item>> \o DrainOrder(update_status(s, item.id, "processing"))

DrainIds(s) == [k \in 1..Len(DrainOrder(s)) |-> DrainOrder(s)[k].id]

\* Positions of the documents with stop = false and status = pending.
Eligible(s) == {i \in 1..Len(s) : s[i].stop = FALSE /\ s[i].status = "pending"}

IsPrefix(p, q) == Len(p) <= Len(q) /\ \A k \in 1..Len(p) : p[k] = q[k]

NoRepeats(ids) == \A i, j \in 1..Len(ids) : ids[i] = ids[j] => i = j

\* The last position (1-based) at which id occurs in ids.
LastPos(ids, id) == CHOOSE i \in 1..Len(ids) :
    ids[i] = id /\ \A j \in 1..Len(ids) : ids[j] = id => j <= i

\* The step on which a set_priority call returns.
SetPriorityCompletes == sp.pc = "loop" /\ sp'.pc = "done"

\* ------------------------------------------------------------------ C1
\* C1 as stated: get_first returns the eligible (stop = false, status = pending)
\* document that is least under (priority, id), and none when there is none.
C1_LeastByPriorityThenId ==
    LET item == get_first(store)
    IN /\ (Eligible(store) = {}) <=> (item = NoDoc)
       /\ \A j \in Eligible(store) :
            \/ item.priority < store[j].priority
            \/ item.priority = store[j].priority /\ item.id <= store[j].id

\* C1, amended: get_first returns the eligible document that is least under
\* (priority ascending, then _id ascending, the order of insertion), none when no
\* document is eligible; successive dequeues yield all eligible documents in
\* strictly ascending (priority, _id) order.
C1_LeastByPriorityThenInsertion ==
    LET item == get_first(store)
        drain == DrainOrder(store)
    IN /\ (Eligible(store) = {}) <=> (item = NoDoc)
       /\ item # NoDoc => \E i \in Eligible(store) : store[i] = item
       /\ \A j \in Eligible(store) :
            \/ item.priority < store[j].priority
            \/ item.priority = store[j].priority /\ item.oid <= store[j].oid
       /\ Len(drain) = Cardinality(Eligible(store))
       /\ \A k \in 1..(Len(drain) - 1) :
            \/ drain[k].priority < drain[k + 1].priority
            \/ drain[k].priority = drain[k + 1].priority
               /\ drain[k].oid < drain[k + 1].oid

\* Two eligible documents of equal priority whose ids run against their insertion
\* order: the one inserted first is returned, and both are dequeued.
C1_Witness ==
    /\ \E i, j \in Eligible(store) :
         /\ store[i].priority = store[j].priority
         /\ store[i].oid < store[j].oid
         /\ store[i].id > store[j].id
         /\ get_first(store) = store[i]
    /\ Len(DrainOrder(store)) >= 2

\* ------------------------------------------------------------------ C2
\* C2: a document with stop = true is never what get_first returns, nor any
\* document a later dequeue returns, whatever its status.
C2_StoppedNeverReturned ==
    \A i \in 1..Len(store) :
        store[i].stop = TRUE =>
            /\ get_first(store) # store[i]
            /\ \A k \in 1..Len(DrainOrder(store)) : DrainOrder(store)[k] # store[i]

\* A stopped document that is still pending and would sort first is passed over.
C2_Witness ==
    \E i, j \in 1..Len(store) :
        /\ store[i].stop = TRUE /\ store[i].status = "pending"
        /\ get_first(store) = store[j]
        /\ store[i].priority < store[j].priority

\* ------------------------------------------------------------------ C3
\* The listed ids (in list order) whose document, in s, is eligible and has an
\* _id below base.
ListedEligible(s, ids, base) ==
    LET Keep(id) == /\ FirstWithId(s, id) # 0
                    /\ FirstWithId(s, id) \in Eligible(s)
                    /\ DocWithId(s, id).oid < base
    IN SelectSeq(ids, Keep)

\* C3 as stated: when set_priority(ids) returns (ids without repeats), successive
\* dequeues return the listed eligible documents in list order before any other.
C3_ListedDequeueFirst ==
    [][(SetPriorityCompletes /\ NoRepeats(sp.ids)) =>
          IsPrefix(ListedEligible(store', sp.ids, nextOid'), DrainIds(store'))]_vars

\* C3, amended: when set_priority(ids) returns (ids without repeats), the listed
\* eligible documents that were in the store when the call began are dequeued in
\* list order and before every unlisted document (a listed document inserted while
\* the call runs may have missed its priority write and come later).
C3_ListedPresentDequeueFirst ==
    [][(SetPriorityCompletes /\ NoRepeats(sp.ids)) =>
          LET Old(id) == ~InList(sp.ids, id) \/ DocWithId(store', id).oid < sp.base
          IN IsPrefix(ListedEligible(store', sp.ids, sp.base),
                      SelectSeq(DrainIds(store'), Old))]_vars

\* A call has returned whose listed documents are all eligible and are dequeued
\* first, ahead of an eligible document that is older than the first of them.
C3_Witness ==
    /\ sp.pc = "done"
    /\ Len(sp.ids) >= 1
    /\ NoRepeats(sp.ids)
    /\ ListedEligible(store, sp.ids, sp.base) = sp.ids
    /\ IsPrefix(sp.ids, DrainIds(store))
    /\ \E i \in Eligible(store) :
         DocWithId(store, sp.ids[1]).oid > store[i].oid

\* ------------------------------------------------------------------ C4
\* C4 as stated: when set_priority(ids) returns, the document of the id at
\* position i (0-based) has priority i - n, and every unlisted document has 0.
C4_PositionMinusCount ==
    [][SetPriorityCompletes =>
          /\ \A i \in 1..Len(sp.ids) :
                FirstWithId(store', sp.ids[i]) # 0 =>
                    DocWithId(store', sp.ids[i]).priority = (i - 1) - Len(sp.ids)
          /\ \A k \in 1..Len(store') :
                ~InList(sp.ids, store'[k].id) => store'[k].priority = 0]_vars

\* C4, amended: when set_priority(ids) returns, every listed document that was in
\* the store when the call began has priority j - n, j the last position (0-based)
\* of its id in ids; a listed document inserted meanwhile has that priority or 0;
\* every unlisted document has priority 0.
C4_LastPositionMinusCount ==
    [][SetPriorityCompletes =>
          \A k \in 1..Len(store') :
             LET d == store'[k]
                 p == (LastPos(sp.ids, d.id) - 1) - Len(sp.ids)
             IN /\ ~InList(sp.ids, d.id) => d.priority = 0
                /\ (InList(sp.ids, d.id) /\ d.oid < sp.base) => d.priority = p
                /\ (InList(sp.ids, d.id) /\ d.oid >= sp.base) => d.priority \in {p, 0}]_vars

\* A call over at least two distinct ids has returned and left the priorities
\* -n, ..., -1 on their documents.
C4_Witness ==
    /\ sp.pc = "done"
    /\ Len(sp.ids) >= 2
    /\ NoRepeats(sp.ids)
    /\ \A i \in 1..Len(sp.ids) :
         /\ FirstWithId(store, sp.ids[i]) # 0
         /\ DocWithId(store, sp.ids[i]).priority = (i - 1) - Len(sp.ids)

\* ------------------------------------------------------------------ C5
\* The documents of s2 whose _id is not in s1: those the step inserted.
Inserted(s1, s2) ==
    {s2[j] : j \in {i \in 1..Len(s2) : \A k \in 1..Len(s1) : s1[k].oid # s2[i].oid}}

\* C5 as stated: every document the intake inserts has, when it is inserted,
\* status = pending, priority = 0, stop = false and reacted = false.
C5_InsertedPending ==
    [][\A d \in Inserted(store, store') :
          /\ d.status = "pending"
          /\ d.priority = 0
          /\ d.stop = FALSE
          /\ d.reacted = FALSE]_vars

\* C5, amended: every document the intake inserts has priority = 0 and
\* reacted = false; it has status = pending and stop = false when all its
\* attachments were saved (no error recorded), and status = error and stop = true
\* when saving an attachment failed.
C5_InsertedPendingOrError ==
    [][\A d \in Inserted(store, store') :
          /\ d.priority = 0
          /\ d.reacted = FALSE
          /\ \/ d.error = <<>> /\ d.status = "pending" /\ d.stop = FALSE
             \/ d.error # <<>> /\ d.status = "error" /\ d.stop = TRUE]_vars

\* The intake has inserted a document whose attachment could not be saved, next to
\* one whose attachments all were.
C5_Witness ==
    \E i, j \in 1..Len(store) :
        /\ store[i].status = "error" /\ store[i].stop = TRUE
        /\ store[i].error # <<>> /\ store[i].reacted = FALSE
        /\ store[j].status = "pending" /\ store[j].stop = FALSE
        /\ store[j].error = <<>>

\* ------------------------------------------------------------------ C6
\* C6 as stated: add rejects an id that is already present, so at most one
\* document exists per id.
C6_AtMostOneRecordPerId ==
    \A i, j \in 1..Len(store) : store[i].id = store[j].id => i = j

\* ------------------------------------------------------------------ C7
\* C7: _handle_processing_failure applied twice leaves what one application
\* leaves (status = failed, stop = true, error = [message]; updated_at is not
\* modelled), the next fetch never returns the document it marked, and no failed
\* document of the store is returned by the next fetch.
C7_MarkFailedIdempotent ==
    /\ \A id \in Msgs : \A e \in ErrorMessages :
          LET once == handle_processing_failure(store, id, e)
              twice == handle_processing_failure(once, id, e)
          IN /\ twice = once
             /\ FirstWithId(store, id) # 0 =>
                   /\ DocWithId(once, id).status = "failed"
                   /\ DocWithId(once, id).stop = TRUE
                   /\ DocWithId(once, id).error = <<e>>
                   /\ get_next_queue_item(once) # DocWithId(once, id)
                   /\ \A k \in 1..Len(DrainOrder(once)) : DrainOrder(once)[k].id # id
    /\ \A i \in 1..Len(store) :
          store[i].status = "failed" => get_next_queue_item(store) # store[i]

\* The worker has marked a document failed, a pending one is next in line, and a
\* second failure of the marked document would carry another message.
C7_Witness ==
    \E i, j \in 1..Len(store) :
        /\ store[i].status = "failed" /\ store[i].stop = TRUE
        /\ store[i].error = <<"convert failed">>
        /\ get_next_queue_item(store) = store[j]
        /\ store[i].oid < store[j].oid

\* ------------------------------------------------------------------ C8
\* C8: a failed document has stop = true, and no step of the intake, the worker
\* or the poller changes the status of a failed document.
C8_FailedIsTerminal ==
    /\ [](\A i \in 1..Len(store) : store[i].status = "failed" => store[i].stop = TRUE)
    /\ [][\A i \in 1..Len(store) : \A j \in 1..Len(store') :
             (store[i].status = "failed" /\ store'[j].oid = store[i].oid)
                 => store'[j].status = "failed"]_vars

\* A failed document has been acknowledged by the poller while the worker is
\* busy with a later item.
C8_Witness ==
    \E i \in 1..Len(store) :
        /\ store[i].status = "failed" /\ store[i].stop = TRUE
        /\ store[i].reacted = TRUE
        /\ w.pc # "idle" /\ w.item.id # store[i].id

\* ------------------------------------------------------------------ C9
\* C9 as stated: once a document's status is success, no step changes it.
C9_SuccessIsTerminal ==
    [][\A i \in 1..Len(store) : \A j \in 1..Len(store') :
          (store[i].status = "success" /\ store'[j].oid = store[i].oid)
              => store'[j].status = "success"]_vars

\* ------------------------------------------------------------------ C10
\* The edges of the lifecycle graph.
LifecycleEdges ==
    {<<"pending", "processing">>, <<"processing", "uploading">>,
     <<"uploading", "success">>}
    \cup {<<from, "failed">> : from \in {"pending", "processing", "uploading", "error"}}

\* C10 as stated: a status that has left pending never is pending again, and
\* every change of status follows an edge of the lifecycle graph.
C10_StatusFollowsLifecycle ==
    [][\A i \in 1..Len(store) : \A j \in 1..Len(store') :
          (store'[j].oid = store[i].oid /\ store'[j].status # store[i].status)
              => /\ store'[j].status # "pending"
                 /\ <<store[i].status, store'[j].status>> \in LifecycleEdges]_vars

\* ------------------------------------------------------------------ C11
\* C11 as stated: every write that changes the status of a document leaves it
\* with reacted = false, so a document whose status has just become uploading,
\* success or failed is among those the poller's next query returns.
C11_StatusWriteResetsReacted ==
    [][\A i \in 1..Len(store) : \A j \in 1..Len(store') :
          (store'[j].oid = store[i].oid /\ store'[j].status # store[i].status)
              => /\ store'[j].reacted = FALSE
                 /\ store'[j].status \in {"uploading", "success", "failed"}
                       => \E k \in 1..Len(FindUnreactedFrom(store', 1)) :
                             FindUnreactedFrom(store', 1)[k] = store'[j]]_vars

\* ------------------------------------------------------------------ C12
\* The document of message m is gone, or m is no longer in the channel.
Gone(m) == FirstWithId(store, m) = 0 \/ msg[m] # "live"

\* The status of m's document is shown on the message and acknowledged.
Acknowledged(m) ==
    /\ FirstWithId(store, m) # 0
    /\ DocWithId(store, m).reacted = TRUE
    /\ reaction_map(DocWithId(store, m).status) \in mark[m]

\* C12 as stated: whenever the document of a message has status success or
\* failed, then eventually its status is shown on the message with
\* reacted = true, unless the document is deleted or the message leaves the
\* channel.
C12_FinalStatusEventuallyShown ==
    \A m \in Msgs :
        (FirstWithId(store, m) # 0 /\ DocWithId(store, m).status \in {"success", "failed"})
            ~> (Gone(m) \/ Acknowledged(m))

\* ------------------------------------------------------------------ C13
\* C13 as stated: _update_queue_status with the status a document already has
\* changes no field of it (updated_at is not modelled), so the poller's query
\* returns what it returned before.
C13_ReapplyChangesNothing ==
    \A m \in Msgs :
        FirstWithId(store, m) # 0 =>
            LET once == update_queue_status(store, m, DocWithId(store, m).status)
            IN /\ once = store
               /\ FindUnreactedFrom(once, 1) = FindUnreactedFrom(store, 1)

\* C13, amended: _update_queue_status with the status a document already has
\* changes no field of it but reacted, which becomes false (and updated_at); no
\* other document changes; a second application changes nothing more; and a
\* document that was acknowledged with status uploading, success or failed is
\* returned by the poller's query once more.
C13_ReapplyResetsReactedOnly ==
    \A m \in Msgs :
        FirstWithId(store, m) # 0 =>
            LET d == DocWithId(store, m)
                once == update_queue_status(store, m, d.status)
            IN /\ once = [store EXCEPT ![FirstWithId(store, m)] =
                             [d EXCEPT !.reacted = FALSE]]
               /\ update_queue_status(once, m, d.status) = once
               /\ d.reacted = FALSE => once = store
               /\ (d.reacted = TRUE /\ d.status \in {"uploading", "success", "failed"})
                     => /\ \A k \in 1..Len(FindUnreactedFrom(store, 1)) :
                              FindUnreactedFrom(store, 1)[k].id # m
                        /\ \E k \in 1..Len(FindUnreactedFrom(once, 1)) :
                              FindUnreactedFrom(once, 1)[k].id = m

\* An uploading document has been acknowledged while a second document is in the
\* store: writing uploading to the first again would reset its flag.
C13_Witness ==
    \E i, j \in 1..Len(store) :
        /\ i # j
        /\ store[i].status = "uploading" /\ store[i].reacted = TRUE
        /\ store[i].id \in Msgs
        /\ "hourglass" \in mark[store[i].id]

\* ------------------------------------------------------------------ C14
\* C14: the poller's query returns, once each and in natural order, exactly the
\* documents with status success, failed or uploading and reacted = false: none
\* with another status or with reacted = true, and none that qualifies is left
\* out; the batch the poller starts on is that result.
C14_FindsExactlyUnacknowledged ==
    /\ [](LET found == FindUnreactedFrom(store, 1)
              Qualifies(i) == /\ store[i].status \in {"success", "failed", "uploading"}
                              /\ store[i].reacted = FALSE
          IN /\ Len(found) = Cardinality({i \in 1..Len(store) : Qualifies(i)})
             /\ \A i \in 1..Len(store) :
                   Qualifies(i) <=> \E k \in 1..Len(found) : found[k] = store[i]
             /\ \A k \in 1..Len(found) :
                   /\ found[k].status \notin {"pending", "processing", "error"}
                   /\ found[k].reacted = FALSE
             /\ \A k \in 1..(Len(found) - 1) : found[k].oid < found[k + 1].oid)
    /\ [][(rc.pc = "sleep" /\ rc'.pc = "react")
             => rc'.batch = FindUnreactedFrom(store, 1)]_vars

\* The poller has just read one unacknowledged document out of a store that also
\* holds a document with a reported status and reacted = true.
C14_Witness ==
    /\ rc.pc = "react"
    /\ rc.batch = FindUnreactedFrom(store, 1)
    /\ Len(rc.batch) = 1
    /\ rc.batch[1].status = "uploading"
    /\ \E j \in 1..Len(store) :
          store[j].reacted = TRUE /\ store[j].status \in {"success", "failed"}

\* ------------------------------------------------------------------ C15
\* The documents of s whose id is not id, in their order.
Others(s, id) == SelectSeq(s, LAMBDA d : d.id # id)

\* C15: deleting by id removes the document with that id and leaves every other
\* document as it was, in _delete_message_from_db as in delete_one itself; for
\* an id no document has, it leaves the store unchanged.
C15_RemoveDeletesOnlyThatRecord ==
    /\ [](\A id \in AllMsgs :
             /\ FirstWithId(store, id) = 0 => delete_one(store, id) = store
             /\ FirstWithId(store, id) # 0 =>
                   /\ delete_one(store, id) = Others(store, id)
                   /\ FirstWithId(delete_one(store, id), id) = 0
                   /\ Len(delete_one(store, id)) = Len(store) - 1)
    /\ [][\A m \in Msgs :
             (delpc[m] \in {"db", "db_logged"} /\ delpc'[m] = "idle")
                 => /\ store' = Others(store, m)
                    /\ FirstWithId(store', m) = 0]_vars

\* The document of a deleted message has been removed from under an older
\* document, which is still there.
C15_Witness ==
    /\ nextOid = 3
    /\ Len(store) = 1
    /\ store[1].oid = 1
    /\ \E m \in Msgs :
          /\ msg[m] = "deleted"
          /\ delpc[m] = "idle"
          /\ FirstWithId(store, m) = 0
          /\ store[1].id # m

\* ------------------------------------------------------------------ C16
\* Message m has an attachment whose content type is not in MediaConfig.
HasInvalidAttachment(m) ==
    \E i \in 1..Len(Submission(m)) : MediaConfig(Submission(m)[i]) = "NONE"

\* C16: a message with at least one attachment of a content type outside
\* MediaConfig is deleted by on_message, which saves no file and builds no
\* db_entry for it; no document with its id is ever in the store, whatever its
\* other attachments are.
C16_InvalidAttachmentRejectsAll ==
    /\ [](\A m \in AllMsgs : HasInvalidAttachment(m) =>
             /\ msg[m] \in {"unsent", "deleted"}
             /\ FirstWithId(store, m) = 0
             /\ inflight[m] = NoEntry
             /\ m \notin media
             /\ mark[m] = {})
    /\ [][\A m \in AllMsgs :
             (HasInvalidAttachment(m) /\ msg[m] = "unsent" /\ msg'[m] # "unsent")
                 => msg'[m] = "deleted" /\ store' = store]_vars

\* A message with a valid and an invalid attachment has been deleted and has no
\* document, while a valid message has been queued.
C16_Witness ==
    \E m, v \in Submissions :
        /\ HasInvalidAttachment(m)
        /\ \E i \in 1..Len(Submission(m)) : MediaConfig(Submission(m)[i]) # "NONE"
        /\ msg[m] = "deleted"
        /\ FirstWithId(store, m) = 0
        /\ ~HasInvalidAttachment(v)
        /\ FirstWithId(store, v) # 0

\* ------------------------------------------------------------------ C17
\* C17: a message with more than 10 attachments is deleted by on_message and
\* never has a file, a db_entry or a document; a message with 1 to 10 attachments,
\* all valid, is accepted (its directory is made and its db_entry is built and
\* handed to insert_one, which puts it into the store unless the write fails);
\* every document in the store has at most 10 attachments.
C17_AtMostTenAttachments ==
    /\ [](\A m \in AllMsgs : Len(Submission(m)) > 10 =>
             /\ msg[m] \in {"unsent", "deleted"}
             /\ FirstWithId(store, m) = 0
             /\ inflight[m] = NoEntry
             /\ m \notin media)
    /\ [](\A i \in 1..Len(store) : Len(store[i].attachments) <= 10)
    /\ [][\A m \in AllMsgs :
             /\ (Len(Submission(m)) > 10 /\ msg[m] = "unsent" /\ msg'[m] # "unsent")
                   => msg'[m] = "deleted" /\ store' = store
             /\ (/\ Len(Submission(m)) \in 1..10
                 /\ ~HasInvalidAttachment(m)
                 /\ msg[m] = "unsent" /\ msg'[m] # "unsent")
                   => /\ msg'[m] = "live"
                      /\ m \in media'
                      /\ inflight'[m] # NoEntry
                      /\ inflight'[m].id = m
             /\ (inflight[m] # NoEntry /\ inflight'[m] = NoEntry /\ store' # store)
                   => /\ store' = Append(store, store'[Len(store')])
                      /\ store'[Len(store')].id = m
                      /\ store'[Len(store')].attachments = inflight[m].attachments]_vars

\* A message with eleven attachments has been deleted and has no document, while
\* messages with ten attachments and with one have their documents, the first with
\* all ten attachments.
C17_Witness ==
    \E m, v, u \in Submissions :
        /\ Len(Submission(m)) = 11
        /\ msg[m] = "deleted"
        /\ FirstWithId(store, m) = 0
        /\ Len(Submission(v)) = 10
        /\ FirstWithId(store, v) # 0
        /\ Len(DocWithId(store, v).attachments) = 10
        /\ DocWithId(store, v).status = "pending"
        /\ Len(Submission(u)) = 1
        /\ FirstWithId(store, u) # 0

\* ------------------------------------------------------------------ C18
\* The deletion handler of m starts on a document that is not a success.
DeletionStarts(m) ==
    /\ msg[m] = "live" /\ msg'[m] = "deleted"
    /\ FirstWithId(store, m) # 0
    /\ DocWithId(store, m).status # "success"

\* The deletion handler of m returns from _delete_message_from_db.
DeletionCompletes(m) == delpc[m] \in {"db", "db_logged"} /\ delpc'[m] = "idle"

\* C18 as stated: when the deletion handler has run for a message whose document
\* was not a success, the media directory and the document are both gone.
C18_DeletionRemovesFilesAndRecord ==
    [][\A m \in Msgs :
          /\ DeletionStarts(m) => delpc'[m] = "files"
          /\ DeletionCompletes(m) => (m \notin media' /\ FirstWithId(store', m) = 0)]_vars

\* C18, amended: the handler goes through both deletions; when it returns the
\* document is gone, and the media directory is gone unless removing it raised,
\* which is logged and leaves the directory as it was.
C18_DeletionRemovesRecordAndTriesFiles ==
    [][\A m \in Msgs :
          /\ DeletionStarts(m) => delpc'[m] = "files"
          /\ (delpc[m] = "files" /\ delpc'[m] = "db") => m \notin media'
          /\ (delpc[m] = "files" /\ delpc'[m] = "db_logged")
                => (m \in media' /\ media' = media)
          /\ (delpc[m] = "files" /\ delpc'[m] # "files")
                => (delpc'[m] \in {"db", "db_logged"} /\ store' = store)
          /\ DeletionCompletes(m) =>
                /\ FirstWithId(store', m) = 0
                /\ media' = media
                /\ delpc[m] = "db" => m \notin media']_vars

\* Both messages were queued and then deleted: nothing is left of one, and of the
\* other the directory, which could not be removed.
C18_Witness ==
    /\ nextOid = 3
    /\ store = <<>>
    /\ \A m \in Msgs : msg[m] = "deleted" /\ delpc[m] = "idle"
    /\ Cardinality(media \cap Msgs) = 1
    /\ w.pc = "idle"

\* ------------------------------------------------------------------ C19
\* C19: when the deletion handler reads a document with status success, it ends
\* there: the store and the media directories are as they were, and neither of
\* its deletions is started.
C19_SuccessSurvivesDeletion ==
    [][\A m \in Msgs :
          (/\ msg[m] = "live" /\ msg'[m] = "deleted"
           /\ FirstWithId(store, m) # 0
           /\ DocWithId(store, m).status = "success")
              => /\ store' = store
                 /\ media' = media
                 /\ delpc'[m] = "idle"]_vars

\* The message of a success whose directory the worker could not yet remove has
\* been deleted: document and directory are still there and no handler is at work.
C19_Witness ==
    \E m \in Msgs :
        /\ msg[m] = "deleted"
        /\ delpc[m] = "idle"
        /\ FirstWithId(store, m) # 0
        /\ DocWithId(store, m).status = "success"
        /\ m \in media

\* ------------------------------------------------------------------ C20
\* C20 as stated: the document of the item the worker is converting has status
\* processing, the one it is uploading has status uploading, a document becomes
\* uploading only from processing and success only from uploading, so that a
\* published item has gone through pending, processing, uploading, success.
C20_WritesProcessingThenUploading ==
    /\ []((w.pc = "convert" /\ FirstWithId(store, w.item.id) # 0)
             => DocWithId(store, w.item.id).status = "processing")
    /\ []((w.pc = "upload" /\ FirstWithId(store, w.item.id) # 0)
             => DocWithId(store, w.item.id).status = "uploading")
    /\ [][\A i \in 1..Len(store) : \A j \in 1..Len(store') :
             (store'[j].oid = store[i].oid /\ store'[j].status # store[i].status)
                 => /\ store'[j].status = "uploading" => store[i].status = "processing"
                    /\ store'[j].status = "success" => store[i].status = "uploading"
                    /\ store'[j].status = "processing" => store[i].status = "pending"]_vars

\* ------------------------------------------- a failed conversion or upload
\* The worker's except clause stores a failure that a conversion or the
\* publisher raised.
StoresRaised(errors) ==
    w.pc = "failure" /\ w.error \in errors /\ w'.pc = "idle"

\* C21: when a conversion or the publisher call raises, the item ends with
\* status failed, stop true and an error list of exactly one entry (the captured
\* message), and the worker leaves the item's media directory where it is, from
\* the raise to the end of the invocation.
C21_FailureMarksAndKeepsFiles ==
    /\ [][StoresRaised({"convert failed", "upload failed"})
            => /\ media' = media
               /\ FirstWithId(store, w.item.id) # 0
                    => /\ DocWithId(store', w.item.id).status = "failed"
                       /\ DocWithId(store', w.item.id).stop = TRUE
                       /\ DocWithId(store', w.item.id).error = <<w.error>>
                       /\ Others(store', w.item.id) = Others(store, w.item.id)]_vars
    /\ [][(w.pc \in {"convert", "upload", "publishing"} /\ w'.pc = "failure")
            => media' = media]_vars

\* A conversion or an upload has failed and the invocation is over: the record is
\* failed and stopped with one error, its directory is still there.
C21_Witness ==
    \E i \in 1..Len(store) :
        /\ store[i].status = "failed" /\ store[i].stop
        /\ Len(store[i].error) = 1
        /\ store[i].error[1] \in {"convert failed", "upload failed"}
        /\ store[i].id \in media
        /\ w.pc = "idle"

\* ------------------------------------------------ one publish per record
\* C22: with one upload_media at a time, a record is moved to uploading at most
\* once and the publisher is called at most once for its id, in its whole life;
\* while a publisher call for an id is due or running, no other call for that id
\* has been made.
C22_PublishedAtMostOnce ==
    \A m \in AllMsgs :
        /\ calls[m].uploading <= 1
        /\ calls[m].publish <= 1
        /\ calls[m].publish <= calls[m].uploading
        /\ (w.pc = "upload" /\ w.item.id = m) => calls[m].publish = 0
        /\ (w.pc = "publishing" /\ w.item.id = m) => calls[m].publish = 1

\* The publisher was called for a record and raised, the record is kept as failed,
\* and a later upload_media has run.
C22_Witness ==
    \E i \in 1..Len(store) :
        /\ calls[store[i].id].publish = 1
        /\ store[i].status = "failed"
        /\ w.pc = "raised"

\* ------------------------------------------- conversions before the status
\* The worker writes a status on its item's record.
WorkerWritesStatus ==
    \/ w.pc = "uploading" /\ w'.pc = "upload"
    \/ w.pc = "success" /\ w'.pc = "cleanup"
    \/ w.pc = "failure" /\ w'.pc = "idle"

\* C23: an item with N attachments has had exactly N conversion attempts (w.k of
\* them, each converted or raised) before the worker writes uploading, success
\* or failed on it.
C23_AllAttemptedBeforeStatus ==
    [][WorkerWritesStatus => w.k = Len(w.item.attachments)]_vars

\* C23 as the loop runs: uploading and success are written after all N
\* attachments were converted; failed is written after at least one and at most
\* N attempts, and after fewer than N only when the last attempt raised.
C23_AttemptsUpToFirstFailure ==
    /\ [][(WorkerWritesStatus /\ w.pc # "failure")
            => w.k = Len(w.item.attachments)]_vars
    /\ [][(WorkerWritesStatus /\ w.pc = "failure")
            => /\ w.k >= 1 /\ w.k <= Len(w.item.attachments)
               /\ w.k < Len(w.item.attachments) => w.error = "convert failed"]_vars

\* The conversion of the first of two attachments has raised and the failure is
\* about to be stored, after another record had all its attachments converted.
C23_Witness ==
    /\ w.pc = "failure" /\ w.error = "convert failed"
    /\ w.k = 1 /\ Len(w.item.attachments) = 2
    /\ \E j \in 1..Len(store) : store[j].status \in {"uploading", "success"}

\* ------------------------------------------- a source message that is gone
\* The poller leaves the item at the head of its cursor without marking it.
PollerSkipsItem ==
    /\ rc.pc = "react"
    /\ rc' # rc
    /\ rc'.pc \notin {"log", "flag"}

\* C24: when the source message of an unacknowledged record cannot be fetched,
\* the tick writes nothing (reacted stays false, the marks stay) and the loop
\* goes on with the next item or its sleep; the poller gets past the fetch only
\* with a message that is there, and reacted is set only past the fetch.
C24_UnfetchedStaysUnacknowledged ==
    /\ [][PollerSkipsItem
            => /\ store' = store /\ mark' = mark
               /\ rc' = IF Len(rc.batch) = 1 THEN PollerIdle
                        ELSE [rc EXCEPT !.batch = Tail(rc.batch)]]_vars
    /\ [][(rc.pc = "react" /\ rc' # rc /\ msg[Head(rc.batch).id] # "live")
            => PollerSkipsItem]_vars
    /\ [][\A i \in 1..Len(store) :
            (i <= Len(store') /\ store'[i].oid = store[i].oid
             /\ ~store[i].reacted /\ store'[i].reacted)
            => rc.pc = "flag" /\ Head(rc.batch).id = store[i].id]_vars

\* The poller has passed a record whose message was deleted and is at a later
\* record of the same cursor; the first is still unacknowledged.
C24_Witness ==
    /\ rc.pc = "react"
    /\ \E i, j \in 1..Len(store) :
        /\ i < j
        /\ Unreacted(store[i]) /\ msg[store[i].id] = "deleted"
        /\ Len(rc.batch) = 1 /\ Head(rc.batch).oid = store[j].oid

\* ------------------------------------------------- a log edit that fails
\* The poller writes reacted = True on a record that did not have it.
SetsReacted(i) ==
    /\ i <= Len(store') /\ store'[i].oid = store[i].oid
    /\ ~store[i].reacted /\ store'[i].reacted

\* C25: when the edit of the log entry fails for a record that carries a log
\* reference, the poller does not set reacted true in that tick, and the record
\* is found unacknowledged again by the next tick.
C25_FailedLogEditLeavesUnacknowledged ==
    [][(rc.log = "failed" /\ rc' # rc)
        => /\ \A i \in 1..Len(store) : ~SetsReacted(i)
           /\ \A i \in 1..Len(store) :
                (store[i].id = Head(rc.batch).id /\ Unreacted(store[i]))
                => (i <= Len(store') /\ Unreacted(store'[i]))]_vars

C27_NoRecordNeverShownQueued ==
    \A m \in Submissions :
        (ipc[m] = "clock" \/ "clock" \in mark[m]) => FirstWithId(store, m) # 0

\* ------------------------------------------- errors of a worker invocation
\* C28: no error of an upload_media invocation (in the query for the next item,
\* a conversion, the publisher call, a status write or the media cleanup)
\* leaves the invocation: none ends by raising.
C28_NoErrorLeavesInvocation == w.pc # "raised"

\* ------------------------------------------------- after an item has failed
\* The record of message m is waiting in the queue.
Waiting(m) ==
    \E i \in 1..Len(store) : store[i].id = m /\ MatchesPending(store[i])

\* The record of message m has reached success or failed.
Settled(m) == DocWithId(store, m).status \in {"success", "failed"}

\* C29: a tick never picks a failed record again: the item an upload_media takes
\* is the pending, unstopped record that sorts first in the store; and with the
\* ticks recurring and no deletion, every pending unstopped record eventually
\* reaches success or failed.
C29_FailedSkippedAndQueueDrains ==
    /\ [][(w.pc \in {"idle", "raised"} /\ w'.pc \notin {"idle", "raised"})
            => /\ \E i \in 1..Len(store) : store[i] = w'.item
               /\ w'.item.status = "pending" /\ w'.item.stop = FALSE
               /\ \A j \in 1..Len(store) :
                    (store[j].status = "pending" /\ ~store[j].stop)
                    => ~ \/ store[j].priority < w'.item.priority
                         \/ /\ store[j].priority = w'.item.priority
                            /\ store[j].oid < w'.item.oid]_vars
    /\ \A m \in Msgs : Waiting(m) ~> Settled(m)

\* One record has failed and the next tick has taken the record queued after it.
C29_Witness ==
    \E i, j \in 1..Len(store) :
        /\ i < j
        /\ store[i].status = "failed"
        /\ w.pc = "convert" /\ w.item = store[j]

\* ------------------------------------------- what an invocation may change
\* C30: an upload_media invocation changes no record but the one it peeked and
\* removes no media directory but that record's; it keeps its item to its end;
\* and an invocation that finds no pending, unstopped record changes nothing in
\* the store or the media.
C30_WorkerChangesOnlyItsItem ==
    /\ [][w' # w
            => /\ Len(store') = Len(store)
               /\ \A i \in 1..Len(store) :
                    store'[i] # store[i]
                    => w.item # NoDoc /\ store[i].id = w.item.id
               /\ media' \subseteq media
               /\ media' # media => w.item # NoDoc /\ media \ media' = {w.item.id}]_vars
    /\ [][(w.pc \notin {"idle", "raised"} /\ w'.pc \notin {"idle", "raised"})
            => w'.item = w.item]_vars
    /\ [][(w.pc \in {"idle", "raised"} /\ w' # w /\ get_next_queue_item(store) = NoDoc)
            => /\ store' = store /\ media' = media
               /\ w'.pc \in {"idle", "raised"}]_vars

\* The worker has written uploading on the second record of the store, after the
\* first one failed, and the first one is as the failure left it.
C30_Witness ==
    /\ Len(store) = 2
    /\ w.pc = "upload" /\ w.item.id = store[2].id
    /\ store[2].status = "uploading"
    /\ store[1].status = "failed" /\ store[1].stop

\* ------------------------------------------------------ no partial publish
\* The converted media of all the attachments of an item, in their order.
AllConverted(item) ==
    [i \in 1..Len(item.attachments) |-> process_media(item.attachments[i], i)]

\* The worker calls the publisher for message m.
PublisherCalled(m) == calls'[m] # calls[m] /\ calls'[m].publish # calls[m].publish

\* C31: the publisher is never called for an item of which a conversion failed,
\* and whenever it is called, for the worker's item, it is handed the converted
\* media of all the item's attachments in their original order.
C31_NoPartialPublish ==
    /\ [][\A m \in AllMsgs :
            PublisherCalled(m)
            => /\ w.item.id = m
               /\ w.converted = AllConverted(w.item)
               /\ calls'[m].sent = AllConverted(w.item)]_vars
    /\ []((w.pc = "failure" /\ w.error = "convert failed")
            => calls[w.item.id].publish = 0)
    /\ [](\A i \in 1..Len(store) :
            store[i].error = <<"convert failed">> => calls[store[i].id].publish = 0)

\* The publisher was called with the two converted media of a video with a photo,
\* and the conversion of another item has failed.
C31_Witness ==
    \E m \in Msgs :
        /\ calls[m].publish = 1
        /\ calls[m].sent = <<process_media("VIDEO", 1), process_media("PHOTO", 2)>>
        /\ \E i \in 1..Len(store) : store[i].error = <<"convert failed">>

\* ------------------------------------------------ the publisher call made
\* The publisher call the attachments of a record ask for.
KindFor(attachments) ==
    IF Len(attachments) > 1 THEN "album"
    ELSE IF attachments = <<"PHOTO">> THEN "photo"
    ELSE IF attachments = <<"VIDEO">> THEN "video"
    ELSE "none"

\* C32: every record with status success had exactly one publisher call made for
\* it, of the kind its attachments fix: the album call for more than one
\* attachment, the photo call for one PHOTO, the video call for one VIDEO; no
\* record is success without a publisher call.
C32_SuccessAfterOneCallOfItsKind ==
    \A i \in 1..Len(store) :
        store[i].status = "success"
        => /\ calls[store[i].id].publish = 1
           /\ calls[store[i].id].kind = KindFor(store[i].attachments)
           /\ calls[store[i].id].kind # "none"

\* An album, a photo and a video have each been published by the call of their
\* kind and their records are success.
C32_Witness ==
    /\ Len(store) = 3
    /\ \A i \in 1..3 : store[i].status = "success"
    /\ {calls[store[i].id].kind : i \in 1..3} = {"album", "photo", "video"}

\* ------------------------------------------------- after a successful publish
\* An upload_media that took an item ends.
InvocationEnds == w.pc \notin {"idle", "raised"} /\ w'.pc = "idle"

\* C33: the worker never deletes a record, and an invocation whose publisher call
\* succeeded ends with the item's record (if no deletion of the message removed
\* it) at status success and with the item's media directory deleted.
C33_SuccessKeepsRecordDeletesMedia ==
    /\ [][w' # w
            => /\ Len(store') = Len(store)
               /\ \A i \in 1..Len(store) : store'[i].oid = store[i].oid]_vars
    /\ [][(InvocationEnds /\ w.published)
            => /\ w.item.id \notin media'
               /\ FirstWithId(store', w.item.id) # 0
                    => DocWithId(store', w.item.id).status = "success"]_vars

\* ------------------------------------------------------ marks do not stack
\* The poller's tick has fetched and marked the source message of its item.
PollerMarksItem == rc.pc = "react" /\ rc'.pc \in {"log", "flag"}

MidFlight == {"convert", "uploading", "upload", "publishing"}

InterruptedMidFlight == w.pc \in MidFlight /\ w' = WorkerIdle

\* C35: when the worker process is stopped while an item is in hand (after the
\* peek: during the conversions or during the publisher call), the item's record
\* is left with the status processing or uploading, and the worker's query
\* for the next item does not return it again.
C35_InterruptedItemNotPending ==
    [][InterruptedMidFlight
        => /\ DocWithId(store', w.item.id).status \in {"processing", "uploading"}
           /\ get_next_queue_item(store').id # w.item.id]_vars

\* The poller writes reacted for the item it has marked.
PollerAcknowledges == rc.pc = "flag" /\ rc' # rc

\* C36: the poller acknowledges only the status it displayed: when the record's
\* status is no longer the one the poller read (the worker wrote a new status,
\* with reacted false, after the poll query), the record is still unacknowledged
\* after the poller's reacted write, so a later poll finds it.
C36_ChangedStatusStaysUnacknowledged ==
    [][(/\ PollerAcknowledges
        /\ FirstWithId(store, Head(rc.batch).id) # 0
        /\ DocWithId(store, Head(rc.batch).id).status # Head(rc.batch).status)
        => Unreacted(DocWithId(store', Head(rc.batch).id))]_vars

\* on_raw_message_delete has run to its end for message m: the record and the
\* media directory are gone.
DeletionHandled(m) ==
    /\ msg[m] = "deleted"
    /\ delpc[m] = "idle"
    /\ FirstWithId(store, m) = 0
    /\ m \notin media

\* The publisher call of the item in hand returns: the item is published.
PublishCompletes == w.pc = "publishing" /\ w'.published

\* C37: an item is never published after its deletion was handled: when the
\* publisher call returns, it is not the case that the message was deleted and
\* the handler has removed the item's record and media.
C37_NoPublishAfterHandledDeletion ==
    [][PublishCompletes => ~DeletionHandled(w.item.id)]_vars

\* set_priority has written the priority of every listed id and has not yet
\* reset the other records.
BeforeReset == sp.pc = "loop" /\ sp.idx > Len(sp.ids)

\* A pending, unstopped record of the list that was in the store when
\* set_priority was called.
ListedPendingAtCall(d) ==
    /\ InList(sp.ids, d.id)
    /\ MatchesPending(d)
    /\ d.oid < sp.base

\* C38: between the per-id priority writes of set_priority(ids) and its reset
\* of the other records, get_first does not return a record outside ids while a
\* pending, unstopped record of ids is in the store, whatever priorities
\* the other records were left with by an earlier set_priority.
C38_ListedFirstBeforeReset ==
    (/\ BeforeReset
     /\ \E i \in 1..Len(store) : ListedPendingAtCall(store[i]))
        => InList(sp.ids, get_first(store).id)

====
